---- MODULE Spec2Model ----
(***************************************************************************)
(* A model of src/ASI.py: the ASI object (Memory Table, Cache, the         *)
(* snapshot file cache_dump.pkl, last_update_time), its methods, and the   *)
(* __main__ sequence that ends in the maintain_memory loop.                *)
(*                                                                         *)
(* Three specifications share the variables and the method definitions:    *)
(*   Spec       a client that calls the returning methods of one ASI       *)
(*              object in any order, beside an environment that may write  *)
(*              or remove the snapshot file;                               *)
(*   MainSpec   the __main__ block, lines 101-118, step by step;           *)
(*   LearnSpec  self_learn applied once to inputs drawn from bounded sets. *)
(* MainFairSpec is MainSpec with the program's steps taken when they can   *)
(* be; MainAloneSpec is the __main__ block run with no snapshot file on    *)
(* disk and no other process touching it.                                  *)
(*                                                                         *)
(* Time is in seconds.  Strings stand for Python strings; a Python dict is *)
(* a function whose DOMAIN is the set of keys present.                     *)
(***************************************************************************)
EXTENDS Integers, Sequences, FiniteSets, TLC

VARIABLES
    memory,            \* self.memory, line 15
    cache,             \* self.cache, line 16
    model,             \* self.model, line 17: "unfitted" or "fitted"
    last_update_time,  \* self.last_update_time, line 18
    snapshot,          \* the file cache_dump.pkl: [exists, bytes]
    now,               \* the wall clock read by datetime.now()
    ticks,             \* how many times the clock has advanced (bounds the run)
    X,                 \* the caller's list of feature vectors (mutated in place)
    y,                 \* the caller's list of labels
    X_orig,            \* history: X as it was passed to the last self_learn
    Z_arg,             \* history: the Z_calibration argument of the last self_learn
    last,              \* history: the last operation and how it ended
    prev,              \* history: the operation before the last one
    sensor_plugin,     \* __main__'s sensor_plugin, line 110 ("unset" before it)
    trace,             \* history: the calls __main__ has made, in order
    entered,           \* history: the clock when maintain_memory was entered (-1 before)
    updates,           \* history: the check times of the loop's daily updates, in order
    pc                 \* where the caller is

vars == <<memory, cache, model, last_update_time, snapshot, now, ticks,
          X, y, X_orig, Z_arg, last, prev, sensor_plugin, trace, entered,
          updates, pc>>

----------------------------------------------------------------------------
(* Bounds of the model *)

\* how many times the clock may advance in one run
MaxTicks == 6
\* the longest list of feature vectors / labels passed to self_learn
MaxRows == 2
\* feature coordinates range over 0..MaxCoord
MaxCoord == 1

(* Program constants *)

\* timedelta(days=1), in seconds
Day == 86400
\* time.sleep(60)
PollInterval == 60
\* the three axes X, Y, Z of a feature vector
Dim == 3
\* Z_calibration = 0.2, in tenths
MainZ == 2

\* the keys __main__ and maintain_memory write to the Memory Table
MemKeys == {"data_point_1", "last_update"}
\* the values a caller writes to the Memory Table
MemVals == {"Important value", "other value"}
\* the keys and values a caller keeps in the cache, in a fixed order
CacheKeyOrder == <<"a", "b">>
CacheKeys == {CacheKeyOrder[i] : i \in 1..Len(CacheKeyOrder)}
CacheVals == {"v1", "v2"}
\* the order in which pickle writes the items of a dict: the cache's keys,
\* then the Memory Table's
KeyOrder == CacheKeyOrder \o <<"data_point_1", "last_update">>
\* the amounts by which the clock advances: one poll interval, and the
\* rest of a day
Durations == {PollInterval, Day - PollInterval}
\* the calibration offsets a caller passes (None is <<>>, a number n is <<n>>)
Offsets == {<<>>, <<0>>, <<1>>, <<-1>>}

----------------------------------------------------------------------------
(* Python dicts *)

EmptyDict == <<>>

\* d[key] = value
SetItem(d, key, value) ==
    [k \in DOMAIN d \cup {key} |-> IF k = key THEN value ELSE d[k]]

\* every dict over the given keys and values
Dicts(keys, vals) == UNION {[D -> vals] : D \in SUBSET keys}

\* str(current_time)
Str(t) == ToString(t)

----------------------------------------------------------------------------
(* pickle: the byte stream is a sequence of <<opcode, argument>> pairs *)

Op(o) == <<o, "">>
Unicode(s) == <<"BINUNICODE", s>>

\* the items of d as key, value, key, value, ... for the keys order[i..]
RECURSIVE Items(_, _, _)
Items(d, order, i) ==
    IF i > Len(order) THEN <<>>
    ELSE IF order[i] \in DOMAIN d
         THEN <<Unicode(order[i]), Unicode(d[order[i]])>> \o Items(d, order, i + 1)
         ELSE Items(d, order, i + 1)

PickleFirstItemOnly(d) ==
    LET items == Items(d, KeyOrder, 1)
    IN  <<Op("PROTO"), Op("EMPTY_DICT")>>
        \o (IF Len(items) = 0 THEN <<>>
            ELSE SubSeq(items, 1, 2) \o <<Op("SETITEM")>>)
        \o <<Op("STOP")>>

\* pickle.dump(self.cache, f): what is written for the dict d
Pickle(d) ==
    LET items == Items(d, KeyOrder, 1)
    IN  <<Op("PROTO"), Op("EMPTY_DICT")>>
        \o (IF Len(items) = 0 THEN <<>>
            ELSE IF Len(items) = 2 THEN items \o <<Op("SETITEM")>>
            ELSE <<Op("MARK")>> \o items \o <<Op("SETITEMS")>>)
        \o <<Op("STOP")>>

\* the unpickler's stack holds dicts, strings and marks
DictObj(d) == [t |-> "dict", s |-> "", d |-> d]
StrObj(s) == [t |-> "str", s |-> s, d |-> EmptyDict]
MarkObj == [t |-> "mark", s |-> "", d |-> EmptyDict]

LoadFailed(e) == [ok |-> FALSE, exc |-> e, value |-> EmptyDict]

\* the index of the topmost mark of the stack, 0 if none
RECURSIVE TopMark(_, _)
TopMark(stack, i) ==
    IF i = 0 THEN 0
    ELSE IF stack[i].t = "mark" THEN i ELSE TopMark(stack, i - 1)

\* d updated with the key, value, ... objects objs[i..]
RECURSIVE SetItems(_, _, _)
SetItems(d, objs, i) ==
    IF i + 1 > Len(objs) THEN d
    ELSE SetItems(SetItem(d, objs[i].s, objs[i + 1].s), objs, i + 2)

\* the unpickler's loop from byte i on
RECURSIVE Load(_, _, _)
Load(bytes, i, stack) ==
    IF i > Len(bytes) THEN LoadFailed("EOFError")
    ELSE
      LET op == bytes[i][1]
          n == Len(stack)
      IN  CASE op = "PROTO" -> Load(bytes, i + 1, stack)
            [] op = "EMPTY_DICT" ->
                 Load(bytes, i + 1, Append(stack, DictObj(EmptyDict)))
            [] op = "BINUNICODE" ->
                 Load(bytes, i + 1, Append(stack, StrObj(bytes[i][2])))
            [] op = "MARK" -> Load(bytes, i + 1, Append(stack, MarkObj))
            [] op = "SETITEM" ->
                 IF n >= 3 /\ stack[n - 2].t = "dict"
                 THEN Load(bytes, i + 1,
                           Append(SubSeq(stack, 1, n - 3),
                                  DictObj(SetItem(stack[n - 2].d,
                                                  stack[n - 1].s, stack[n].s))))
                 ELSE LoadFailed("UnpicklingError")
            [] op = "SETITEMS" ->
                 LET m == TopMark(stack, n)
                 IN  IF m >= 2 /\ stack[m - 1].t = "dict"
                     THEN Load(bytes, i + 1,
                               Append(SubSeq(stack, 1, m - 2),
                                      DictObj(SetItems(stack[m - 1].d,
                                                       SubSeq(stack, m + 1, n), 1))))
                     ELSE LoadFailed("UnpicklingError")
            [] op = "STOP" ->
                 IF n >= 1 /\ stack[n].t = "dict"
                 THEN [ok |-> TRUE, exc |-> "none", value |-> stack[n].d]
                 ELSE LoadFailed("UnpicklingError")
            [] OTHER -> LoadFailed("UnpicklingError")

\* pickle.load(f): the first pickle of the stream, or the exception raised
Unpickle(bytes) == Load(bytes, 1, <<>>)

\* the snapshot file
NoFile == [exists |-> FALSE, bytes |-> <<>>]
File(bytes) == [exists |-> TRUE, bytes |-> bytes]

\* what a write of bytes that fails part-way leaves in the file
Truncations(bytes) == {SubSeq(bytes, 1, n) : n \in 0..(Len(bytes) - 1)}

\* the contents another process may give the snapshot file: none, or the
\* complete pickle of a dict
WholeFiles == {NoFile} \cup {File(Pickle(d)) : d \in Dicts(CacheKeys, CacheVals)}

\* the contents the snapshot file may have when the program starts: those, or
\* a pickle an earlier run left truncated
Files ==
    WholeFiles
    \cup {File(b) : b \in UNION {Truncations(Pickle(d)) :
                                    d \in Dicts(CacheKeys, CacheVals)}}

----------------------------------------------------------------------------
(* The record of the last operation: its name, its arguments a and b (b also *)
(* holds what the operation read from the environment), a number n, the     *)
(* exception that left it ("none" if it returned), the value returned and   *)
(* the last line it logged.                                                 *)

Rec(op, a, b, n, exc, ret, log) ==
    [op |-> op, a |-> a, b |-> b, n |-> n, exc |-> exc, ret |-> ret, log |-> log]

----------------------------------------------------------------------------
(* The methods of ASI.  Each is an action on the object's fields, the file  *)
(* and the caller's lists; the caller's position (pc, trace) and the clock  *)
(* are left to the caller.                                                  *)

\* what the file system may hold at a plugin path
PluginFiles == {"absent", "unloadable", "loadable"}

load_plugins_raises(file_path, fs) ==
    /\ last' = Rec("load_plugins", file_path, fs, 0,
                   IF fs = "unloadable" THEN "OSError" ELSE "none",
                   IF fs = "loadable" THEN "plugin" ELSE "None",
                   IF fs = "loadable" THEN "Loading plugin"
                   ELSE "Plugin file not found.")
    /\ UNCHANGED <<memory, cache, model, last_update_time, snapshot,
                   X, y, X_orig, Z_arg>>

\* load_plugins(file_path), the path being absent, a file ctypes.CDLL cannot
\* load, or one it can
load_plugins(file_path, fs) ==
    /\ last' = Rec("load_plugins", file_path, fs, 0, "none",
                   IF fs = "loadable" THEN "plugin" ELSE "None",
                   CASE fs = "loadable" -> "Loading plugin"
                     [] fs = "unloadable" -> "Error loading plugin"
                     [] OTHER -> "Plugin file not found.")
    /\ UNCHANGED <<memory, cache, model, last_update_time, snapshot,
                   X, y, X_orig, Z_arg>>

\* `if Z_calibration:` None and 0 are false
Truthy(Z) == Z # <<>> /\ Z[1] # 0

CalibrateFirstAxis(Xs, Z) ==
    IF Truthy(Z)
    THEN [i \in 1..Len(Xs) |-> [Xs[i] EXCEPT ![1] = @ + Z[1]]]
    ELSE Xs

\* the loop of lines 44-45: X[i][2] = X[i][2] + Z_calibration
Calibrate(Xs, Z) ==
    IF Truthy(Z)
    THEN [i \in 1..Len(Xs) |-> [Xs[i] EXCEPT ![Dim] = @ + Z[1]]]
    ELSE Xs

\* self.model.fit(X, y) raises ValueError on no samples, or on lists of
\* different lengths
FitRaises(Xs, ys) == Len(Xs) = 0 \/ Len(ys) # Len(Xs)

\* self_learn(X, y, Z_calibration), the rows of X being distinct lists
self_learn(Xs, ys, Z) ==
    /\ X' = Calibrate(Xs, Z)
    /\ y' = ys
    /\ X_orig' = Xs
    /\ Z_arg' = Z
    /\ model' = IF FitRaises(X', ys) THEN model ELSE "fitted"
    /\ last' = Rec("self_learn", "", "", Len(Xs),
                   IF FitRaises(X', ys) THEN "ValueError" ELSE "none", "None",
                   "Learning from new data with Z-axis calibration...")
    /\ UNCHANGED <<memory, cache, last_update_time, snapshot>>

SetItemDroppingOthers(d, key, value) == [k \in {key} |-> value]

\* self.memory[key] = value
Updated(d, key, value) == SetItem(d, key, value)

\* update_memory(key, value)
update_memory(key, value) ==
    /\ memory' = Updated(memory, key, value)
    /\ last' = Rec("update_memory", key, value, 0, "none", "None", "Memory updated")
    /\ UNCHANGED <<cache, model, last_update_time, snapshot, X, y, X_orig, Z_arg>>

DumpOutcomesAppend(c, snap) ==
    {[snapshot |-> File(snap.bytes \o Pickle(c)), exc |-> "none"]}
    \cup {[snapshot |-> snap, exc |-> "OSError"]}

\* open('cache_dump.pkl', 'wb') and pickle.dump(self.cache, f): the file is
\* replaced by the pickle of the cache; or open raises and the file is as it
\* was; or the write raises part-way and the file is left truncated
DumpOutcomes(c, snap) ==
    {[snapshot |-> File(Pickle(c)), exc |-> "none"]}
    \cup {[snapshot |-> snap, exc |-> "OSError"]}
    \cup {[snapshot |-> File(b), exc |-> "OSError"] : b \in Truncations(Pickle(c))}

dump_cache_guarded ==
    /\ UNCHANGED <<memory, cache, model, last_update_time, X, y, X_orig, Z_arg>>
    /\ \E o \in DumpOutcomes(cache, snapshot) :
          /\ snapshot' = o.snapshot
          /\ last' = Rec("dump_cache", "", "", 0, "none", "None",
                         IF o.exc = "none" THEN "Dumping cache to file..."
                         ELSE "Cache dump failed")

dump_cache_of_memory ==
    /\ UNCHANGED <<memory, cache, model, last_update_time, X, y, X_orig, Z_arg>>
    /\ \E o \in DumpOutcomes(memory, snapshot) :
          /\ snapshot' = o.snapshot
          /\ last' = Rec("dump_cache", "", "", 0, o.exc, "None",
                         "Dumping cache to file...")

\* dump_cache()
dump_cache ==
    /\ UNCHANGED <<memory, cache, model, last_update_time, X, y, X_orig, Z_arg>>
    /\ \E o \in DumpOutcomes(cache, snapshot) :
          /\ snapshot' = o.snapshot
          /\ last' = Rec("dump_cache", "", "", 0, o.exc, "None",
                         "Dumping cache to file...")

\* c.update(v)
Merged(c, v) ==
    [k \in DOMAIN c \cup DOMAIN v |-> IF k \in DOMAIN v THEN v[k] ELSE c[k]]

RestoreOutcomesMerge(c, snap) ==
    IF snap.exists
    THEN {[cache |-> c, exc |-> "OSError",
           log |-> "Restoring from last cache dump..."]}
         \cup {LET r == Unpickle(snap.bytes)
               IN  IF r.ok
                   THEN [cache |-> Merged(c, r.value), exc |-> "none",
                         log |-> "Cache restored successfully."]
                   ELSE [cache |-> c, exc |-> r.exc,
                         log |-> "Restoring from last cache dump..."]}
    ELSE {[cache |-> c, exc |-> "none",
           log |-> "No cache dump found. Starting fresh."]}

RestoreOutcomesClearing(c, snap) ==
    IF snap.exists
    THEN {[cache |-> EmptyDict, exc |-> "OSError",
           log |-> "Restoring from last cache dump..."]}
         \cup {LET r == Unpickle(snap.bytes)
               IN  IF r.ok
                   THEN [cache |-> r.value, exc |-> "none",
                         log |-> "Cache restored successfully."]
                   ELSE [cache |-> EmptyDict, exc |-> r.exc,
                         log |-> "Restoring from last cache dump..."]}
    ELSE {[cache |-> EmptyDict, exc |-> "none",
           log |-> "No cache dump found. Starting fresh."]}

\* the body of restore_cache: with the file present, open raises, or
\* pickle.load raises, or the cache becomes what was loaded; with no file the
\* cache is left as it is
RestoreOutcomes(c, snap) ==
    IF snap.exists
    THEN {[cache |-> c, exc |-> "OSError",
           log |-> "Restoring from last cache dump..."]}
         \cup {LET r == Unpickle(snap.bytes)
               IN  IF r.ok
                   THEN [cache |-> r.value, exc |-> "none",
                         log |-> "Cache restored successfully."]
                   ELSE [cache |-> c, exc |-> r.exc,
                         log |-> "Restoring from last cache dump..."]}
    ELSE {[cache |-> c, exc |-> "none",
           log |-> "No cache dump found. Starting fresh."]}

\* restore_cache()
restore_cache ==
    /\ UNCHANGED <<memory, model, last_update_time, snapshot, X, y, X_orig, Z_arg>>
    /\ \E o \in RestoreOutcomes(cache, snapshot) :
          /\ cache' = o.cache
          /\ last' = Rec("restore_cache", "", "", 0, o.exc, "None", o.log)

self_heal_uncaught ==
    /\ UNCHANGED <<memory, model, last_update_time, snapshot, X, y, X_orig, Z_arg>>
    /\ \E o \in RestoreOutcomes(cache, snapshot) :
          /\ cache' = o.cache
          /\ last' = Rec("self_heal", "", o.exc, 0, o.exc, "None",
                         IF o.exc = "none" THEN "Self-healing successful."
                         ELSE o.log)

\* self_heal(): restore_cache() inside try / except Exception; b records the
\* exception restore_cache raised
self_heal ==
    /\ UNCHANGED <<memory, model, last_update_time, snapshot, X, y, X_orig, Z_arg>>
    /\ \E o \in RestoreOutcomes(cache, snapshot) :
          /\ cache' = o.cache
          /\ last' = Rec("self_heal", "", o.exc, 0, "none", "None",
                         IF o.exc = "none" THEN "Self-healing successful."
                         ELSE "Self-healing failed")

----------------------------------------------------------------------------
(* Spec: a client of one ASI object.  It calls the methods that return, in  *)
(* any order and with any arguments, and catches what they raise; it writes *)
(* entries to the public cache; the environment may replace or remove the   *)
(* snapshot file between calls.                                             *)

\* ASI(): lines 14-18, at time 0
Constructed ==
    /\ memory = EmptyDict
    /\ cache = EmptyDict
    /\ model = "unfitted"
    /\ last_update_time = 0
    /\ now = 0
    /\ ticks = 0
    /\ X = <<>>
    /\ y = <<>>
    /\ X_orig = <<>>
    /\ Z_arg = <<>>
    /\ last = Rec("__init__", "", "", 0, "none", "None", "")
    /\ prev = last
    /\ sensor_plugin = "unset"
    /\ trace = <<>>
    /\ entered = -1
    /\ updates = <<>>

Init ==
    /\ Constructed
    /\ snapshot \in Files
    /\ pc = "client"

ClientFrame ==
    prev' = last /\ UNCHANGED <<now, ticks, sensor_plugin, trace, entered, updates, pc>>

CallLoadPlugins ==
    /\ pc = "client"
    /\ \E fs \in PluginFiles : load_plugins("sensors.so", fs)
    /\ ClientFrame

CallUpdateMemory ==
    /\ pc = "client"
    /\ \E k \in MemKeys, v \in MemVals : update_memory(k, v)
    /\ ClientFrame

CallDumpCache ==
    /\ pc = "client"
    /\ dump_cache
    /\ ClientFrame

CallRestoreCache ==
    /\ pc = "client"
    /\ restore_cache
    /\ ClientFrame

CallSelfHeal ==
    /\ pc = "client"
    /\ self_heal
    /\ ClientFrame

\* asi.cache[k] = v
ClientCacheWrite ==
    /\ pc = "client"
    /\ \E k \in CacheKeys, v \in CacheVals :
          /\ cache' = SetItem(cache, k, v)
          /\ last' = Rec("cache_write", k, v, 0, "none", "None", "")
    /\ UNCHANGED <<memory, model, last_update_time, snapshot, X, y, X_orig, Z_arg>>
    /\ ClientFrame

\* another process writes or removes cache_dump.pkl
EnvWriteSnapshot ==
    /\ pc = "client"
    /\ \E f \in WholeFiles :
          /\ f # snapshot
          /\ snapshot' = f
    /\ last' = Rec("env_write", "", "", 0, "none", "None", "")
    /\ UNCHANGED <<memory, cache, model, last_update_time, X, y, X_orig, Z_arg>>
    /\ ClientFrame

Next ==
    \/ CallLoadPlugins
    \/ CallUpdateMemory
    \/ CallDumpCache
    \/ CallRestoreCache
    \/ CallSelfHeal
    \/ ClientCacheWrite
    \/ EnvWriteSnapshot

Spec == Init /\ [][Next]_vars

----------------------------------------------------------------------------
(* MainSpec: the __main__ block, lines 101-118.  Each call is one step; an  *)
(* exception no one catches ends the process (pc = "crashed").  The clock   *)
(* may advance between the steps before the loop, and advances with every   *)
(* sleep of the loop.  Another process may write, truncate or remove the    *)
(* snapshot file between dump_cache and self_heal, the one moment at which  *)
(* the program goes on to read what it finds there.                         *)

\* simulate_data_with_z_axis(): random vectors and labels, in tenths
SimulatedData ==
    {[X |-> <<<<0, 0, 0>>>>, y |-> <<0>>],
     [X |-> <<<<MaxCoord, 0, MaxCoord>>>>, y |-> <<1>>]}

\* the calls of __main__, in the order of lines 107-118
MainOrder ==
    <<"self_learn", "load_plugins", "update_memory", "dump_cache", "self_heal",
      "maintain_memory">>

MainInit ==
    /\ Constructed
    /\ snapshot \in Files
    /\ pc = "self_learn"

\* the statement after a call that returned; the end of the process otherwise
After(exc, next) == IF exc = "none" THEN next ELSE "crashed"

Called(name) ==
    trace' = Append(trace, name) /\ prev' = last /\ UNCHANGED <<entered, updates>>

\* lines 105-107
MainLearn ==
    /\ pc = "self_learn"
    /\ \E d \in SimulatedData : self_learn(d.X, d.y, <<MainZ>>)
    /\ Called("self_learn")
    /\ pc' = After(last'.exc, "load_plugins")
    /\ UNCHANGED <<now, ticks, sensor_plugin>>

\* line 110
MainLoadPlugins ==
    /\ pc = "load_plugins"
    /\ \E fs \in PluginFiles : load_plugins("sensors.so", fs)
    /\ Called("load_plugins")
    /\ sensor_plugin' = IF last'.exc = "none" THEN last'.ret ELSE sensor_plugin
    /\ pc' = After(last'.exc, "update_memory")
    /\ UNCHANGED <<now, ticks>>

\* line 113
MainUpdateMemory ==
    /\ pc = "update_memory"
    /\ update_memory("data_point_1", "Important value")
    /\ Called("update_memory")
    /\ pc' = After(last'.exc, "dump_cache")
    /\ UNCHANGED <<now, ticks, sensor_plugin>>

\* line 114
MainDumpCache ==
    /\ pc = "dump_cache"
    /\ dump_cache
    /\ Called("dump_cache")
    /\ pc' = After(last'.exc, "self_heal")
    /\ UNCHANGED <<now, ticks, sensor_plugin>>

\* line 117
MainSelfHeal ==
    /\ pc = "self_heal"
    /\ self_heal
    /\ Called("self_heal")
    /\ pc' = After(last'.exc, "maintain_memory")
    /\ UNCHANGED <<now, ticks, sensor_plugin>>

\* line 118: maintain_memory() is entered
MainMaintainMemory ==
    /\ pc = "maintain_memory"
    /\ trace' = Append(trace, "maintain_memory")
    /\ entered' = now
    /\ pc' = "check"
    /\ UNCHANGED <<memory, cache, model, last_update_time, snapshot, now, ticks,
                   X, y, X_orig, Z_arg, last, prev, sensor_plugin, updates>>

UpdateDueAtThreshold(current_time, lut) == current_time - lut >= Day - PollInterval

UpdateDueInclusive(current_time, lut) == current_time - lut >= Day

UpdateDueAfterTwoDays(current_time, lut) == current_time - lut > 2 * Day

\* line 86: current_time - self.last_update_time > timedelta(days=1)
UpdateDue(current_time, lut) == current_time - lut > Day

LoopCheckThenReturn ==
    /\ pc = "check"
    /\ LET current_time == now
       IN  IF UpdateDue(current_time, last_update_time)
           THEN /\ memory' = Updated(memory, "last_update", Str(current_time))
                /\ last_update_time' = current_time
                /\ last' = Rec("maintain_memory", "last_update", Str(current_time),
                               current_time - last_update_time, "none", "None",
                               "Memory updated")
                /\ updates' = Append(updates, current_time)
                /\ pc' = "returned"
           ELSE /\ UNCHANGED <<memory, last_update_time, updates>>
                /\ last' = Rec("maintain_memory", "", "",
                               current_time - last_update_time, "none", "None", "")
                /\ pc' = "sleep"
    /\ prev' = last
    /\ UNCHANGED <<cache, model, snapshot, now, ticks, X, y, X_orig, Z_arg,
                   sensor_plugin, trace, entered>>

LoopCheckStaleStamp ==
    /\ pc = "check"
    /\ LET current_time == now
       IN  IF UpdateDue(current_time, last_update_time)
           THEN /\ memory' = Updated(memory, "last_update", Str(last_update_time))
                /\ last_update_time' = current_time
                /\ last' = Rec("maintain_memory", "last_update",
                               Str(last_update_time),
                               current_time - last_update_time, "none", "None",
                               "Memory updated")
                /\ updates' = Append(updates, current_time)
           ELSE /\ UNCHANGED <<memory, last_update_time, updates>>
                /\ last' = Rec("maintain_memory", "", "",
                               current_time - last_update_time, "none", "None", "")
    /\ prev' = last
    /\ pc' = "sleep"
    /\ UNCHANGED <<cache, model, snapshot, now, ticks, X, y, X_orig, Z_arg,
                   sensor_plugin, trace, entered>>

LoopCheckKeepsTime ==
    /\ pc = "check"
    /\ LET current_time == now
       IN  IF UpdateDue(current_time, last_update_time)
           THEN /\ memory' = Updated(memory, "last_update", Str(current_time))
                /\ last_update_time' = last_update_time
                /\ last' = Rec("maintain_memory", "last_update", Str(current_time),
                               current_time - last_update_time, "none", "None",
                               "Memory updated")
                /\ updates' = Append(updates, current_time)
           ELSE /\ UNCHANGED <<memory, last_update_time, updates>>
                /\ last' = Rec("maintain_memory", "", "",
                               current_time - last_update_time, "none", "None", "")
    /\ prev' = last
    /\ pc' = "sleep"
    /\ UNCHANGED <<cache, model, snapshot, now, ticks, X, y, X_orig, Z_arg,
                   sensor_plugin, trace, entered>>

\* lines 85-90: one pass of the loop body up to the sleep; n records the time
\* elapsed since last_update_time, a and b the Memory Table write, if any
LoopCheck ==
    /\ pc = "check"
    /\ LET current_time == now
       IN  IF UpdateDue(current_time, last_update_time)
           THEN /\ memory' = Updated(memory, "last_update", Str(current_time))
                /\ last_update_time' = current_time
                /\ last' = Rec("maintain_memory", "last_update", Str(current_time),
                               current_time - last_update_time, "none", "None",
                               "Memory updated")
                /\ updates' = Append(updates, current_time)
           ELSE /\ UNCHANGED <<memory, last_update_time, updates>>
                /\ last' = Rec("maintain_memory", "", "",
                               current_time - last_update_time, "none", "None", "")
    /\ prev' = last
    /\ pc' = "sleep"
    /\ UNCHANGED <<cache, model, snapshot, now, ticks, X, y, X_orig, Z_arg,
                   sensor_plugin, trace, entered>>

\* the clock advances by d
Advance(d) ==
    /\ ticks < MaxTicks
    /\ now' = now + d
    /\ ticks' = ticks + 1

\* line 92: time.sleep(60) returns after a poll interval, or later
LoopSleep ==
    /\ pc = "sleep"
    /\ \E d \in Durations : d >= PollInterval /\ Advance(d)
    /\ pc' = "check"
    /\ UNCHANGED <<memory, cache, model, last_update_time, snapshot,
                   X, y, X_orig, Z_arg, last, prev, sensor_plugin, trace,
                   entered, updates>>

\* time passes while a step before the loop runs, or between a pass of the
\* loop body and its sleep
Tick ==
    /\ pc \in {"self_learn", "load_plugins", "update_memory", "dump_cache",
               "self_heal", "maintain_memory", "sleep"}
    /\ \E d \in Durations : Advance(d)
    /\ UNCHANGED <<memory, cache, model, last_update_time, snapshot,
                   X, y, X_orig, Z_arg, last, prev, sensor_plugin, trace,
                   entered, updates, pc>>

\* another process writes, truncates or removes cache_dump.pkl after the dump
\* (of several such writes only the last one counts)
MainEnvWriteSnapshot ==
    /\ pc = "self_heal"
    /\ last.op = "dump_cache"
    /\ \E f \in Files :
          /\ f # snapshot
          /\ snapshot' = f
    /\ last' = Rec("env_write", "", "", 0, "none", "None", "")
    /\ prev' = last
    /\ UNCHANGED <<memory, cache, model, last_update_time, now, ticks,
                   X, y, X_orig, Z_arg, sensor_plugin, trace, entered, updates, pc>>

\* the steps of the program itself
MainProgram ==
    \/ MainLearn
    \/ MainLoadPlugins
    \/ MainUpdateMemory
    \/ MainDumpCache
    \/ MainSelfHeal
    \/ MainMaintainMemory
    \/ LoopCheck
    \/ LoopSleep

MainNext ==
    \/ MainProgram
    \/ Tick
    \/ MainEnvWriteSnapshot

MainSpec == MainInit /\ [][MainNext]_vars

\* the process is single-threaded and runs until it is killed: a step of the
\* program that can be taken is taken
MainFairSpec == MainSpec /\ WF_vars(MainProgram)

InLoop == pc \in {"check", "sleep"}

\* MainAloneSpec: __main__ started in a directory with no cache_dump.pkl, the
\* program being the only one that touches the file
MainAloneInit ==
    /\ Constructed
    /\ snapshot = NoFile
    /\ pc = "self_learn"

MainAloneNext ==
    \/ MainProgram
    \/ Tick

MainAloneSpec == MainAloneInit /\ [][MainAloneNext]_vars

----------------------------------------------------------------------------
(* LearnSpec: one call of self_learn on a fresh object, for every list of   *)
(* feature vectors, every list of labels and every offset within the bounds *)

Vectors == [1..Dim -> 0..MaxCoord]
Labels == {0, 1}
FeatureLists == UNION {[1..n -> Vectors] : n \in 0..MaxRows}
LabelLists == UNION {[1..n -> Labels] : n \in 0..MaxRows}

LearnInit ==
    /\ memory = EmptyDict
    /\ cache = EmptyDict
    /\ model = "unfitted"
    /\ last_update_time = 0
    /\ now = 0
    /\ ticks = 0
    /\ snapshot = NoFile
    /\ X \in FeatureLists
    /\ y \in LabelLists
    /\ X_orig = X
    /\ Z_arg = <<>>
    /\ last = Rec("__init__", "", "", 0, "none", "None", "")
    /\ prev = last
    /\ sensor_plugin = "unset"
    /\ trace = <<>>
    /\ entered = -1
    /\ updates = <<>>
    /\ pc = "client"

CallSelfLearn ==
    /\ pc = "client"
    /\ \E Z \in Offsets : self_learn(X, y, Z)
    /\ prev' = last
    /\ pc' = "returned"
    /\ UNCHANGED <<now, ticks, sensor_plugin, trace, entered, updates>>

LearnNext == CallSelfLearn

LearnSpec == LearnInit /\ [][LearnNext]_vars

----------------------------------------------------------------------------
(* Claims about the client's calls, checked under Spec *)

Returned(r, op) == r.op = op /\ r.exc = "none"

\* C1 (round trip): when restore_cache runs right after a dump_cache that
\* returned, nothing having written the snapshot in between, the cache after
\* restore_cache equals the cache that was dumped; the restore never fails to
\* deserialize, and when it returns it has loaded the snapshot.
C1_RoundTrip ==
    [][(Returned(last, "dump_cache") /\ last'.op = "restore_cache")
         => /\ cache' = cache
            /\ last'.exc \in {"none", "OSError"}
            /\ (last'.exc = "none"
                  => last'.log = "Cache restored successfully.")]_vars

C1_Witness ==
    /\ Returned(prev, "dump_cache")
    /\ Returned(last, "restore_cache")
    /\ DOMAIN cache = CacheKeys
    /\ cache["a"] # cache["b"]

\* C2 (absent-snapshot default), as claimed: whenever restore_cache has run
\* with no snapshot file present, it did not raise and the cache is the empty
\* mapping.
C2_AbsentSnapshotEmptiesCache ==
    (last.op = "restore_cache" /\ ~snapshot.exists)
        => (last.exc = "none" /\ DOMAIN cache = {})

\* C4 (memory overwrite): every update_memory(k, v) leaves k mapped to v and
\* every other key's entry as it was; so update_memory(k, v1) followed by
\* update_memory(k, v2) leaves k mapped to v2 and the other keys unchanged by
\* both calls.
C4_MemoryOverwrite ==
    [][(last'.op = "update_memory" /\ prev' = last)
         => /\ DOMAIN memory' = DOMAIN memory \cup {last'.a}
            /\ memory'[last'.a] = last'.b
            /\ \A k \in DOMAIN memory \ {last'.a} : memory'[k] = memory[k]]_vars

C4_Witness ==
    /\ prev.op = "update_memory"
    /\ last.op = "update_memory"
    /\ prev.a = last.a
    /\ prev.b # last.b
    /\ memory[last.a] = last.b
    /\ DOMAIN memory = MemKeys

\* C5 (idempotent dump): a dump_cache that returns leaves the snapshot file
\* holding exactly the pickle of the cache, whatever the file held before; a
\* second dump_cache right after it leaves the snapshot as the first left it.
C5_IdempotentDump ==
    /\ [](Returned(last, "dump_cache") => snapshot = File(Pickle(cache)))
    /\ [][(Returned(last, "dump_cache") /\ Returned(last', "dump_cache")
              /\ prev' = last)
            => snapshot' = snapshot]_vars

C5_Witness ==
    /\ Returned(prev, "dump_cache")
    /\ Returned(last, "dump_cache")
    /\ DOMAIN cache = CacheKeys

\* C15 (restore bulk-replaces the cache): a restore_cache that returns with
\* the snapshot file present leaves the cache equal to the mapping the file
\* holds: the keys of the file and no others, each with the file's value,
\* whatever the cache held before; the file is then the pickle of the cache.
C15_RestoreReplacesCache ==
    [][(last'.op = "restore_cache" /\ last'.exc = "none" /\ snapshot.exists)
         => /\ Unpickle(snapshot.bytes).ok
            /\ cache' = Unpickle(snapshot.bytes).value
            /\ snapshot' = File(Pickle(cache'))
            /\ last'.log = "Cache restored successfully."]_vars

C15_Witness ==
    /\ prev.op = "cache_write"
    /\ prev.a = "b"
    /\ Returned(last, "restore_cache")
    /\ snapshot.exists
    /\ DOMAIN cache = {"a"}
    /\ cache["a"] = "v1"

\* C17 (a restore that does not succeed leaves state untouched): a
\* restore_cache that finds no snapshot file, and a self_heal whose
\* restore_cache raised, leave the cache, the Memory Table, last_update_time
\* and the snapshot file exactly as they were before the call.
C17_FailedRestoreKeepsState ==
    [][(\/ (last'.op = "restore_cache" /\ ~snapshot.exists)
        \/ (last'.op = "self_heal" /\ last'.b # "none"))
         => /\ cache' = cache
            /\ memory' = memory
            /\ last_update_time' = last_update_time
            /\ snapshot' = snapshot]_vars

C17_Witness ==
    /\ last.op = "self_heal"
    /\ last.b = "EOFError"
    /\ prev.op = "update_memory"
    /\ DOMAIN cache = CacheKeys
    /\ snapshot.exists

----------------------------------------------------------------------------
(* Claims about __main__ and the maintenance loop, checked under MainSpec   *)
(* or, where they say that something goes on to happen, under MainFairSpec  *)

Elapsed == now - last_update_time

Range(f) == {f[i] : i \in DOMAIN f}

IsPrefix(p, q) == Len(p) <= Len(q) /\ SubSeq(q, 1, Len(p)) = p

\* C3 (daily threshold boundary): a pass of the loop that reads the clock at
\* last_update_time + 23h59m writes nothing to the Memory Table and leaves
\* last_update_time; a pass that reads it at last_update_time + 24h1m makes
\* exactly one Memory Table write, of the check time under "last_update", and
\* sets last_update_time to the check time.
C3_DailyThreshold ==
    [][(pc = "check" /\ pc' # "check")
         => /\ (Elapsed = Day - PollInterval
                  => /\ memory' = memory
                     /\ last_update_time' = last_update_time
                     /\ last'.a = "")
            /\ (Elapsed = Day + PollInterval
                  => /\ memory' = SetItem(memory, "last_update", Str(now))
                     /\ last_update_time' = now
                     /\ last'.a = "last_update")]_vars

C3_Witness ==
    /\ prev.op = "maintain_memory"
    /\ prev.n = Day - PollInterval
    /\ prev.a = ""
    /\ last.op = "maintain_memory"
    /\ last.n = Day + PollInterval
    /\ last.a = "last_update"
    /\ last_update_time = now
    /\ memory["last_update"] = Str(now)
    /\ pc = "sleep"

PluginLoadFailed == last.op = "load_plugins" /\ last.b \in {"absent", "unloadable"}

\* C6 (plugin load failure is non-fatal): load_plugins on a path that does
\* not exist, or that ctypes.CDLL cannot load, returns None and raises
\* nothing, __main__ is then at its update_memory call, and it goes on to
\* call update_memory and dump_cache.
C6_PluginFailureNonFatal ==
    /\ [](PluginLoadFailed
            => /\ last.exc = "none"
               /\ last.ret = "None"
               /\ sensor_plugin = "None"
               /\ pc = "update_memory")
    /\ (PluginLoadFailed
          ~> {"update_memory", "dump_cache"} \subseteq Range(trace))

C6_Witness ==
    /\ sensor_plugin = "None"
    /\ prev.op = "update_memory"
    /\ last.op = "dump_cache"
    /\ trace = SubSeq(MainOrder, 1, 4)

RestoreFailedInHeal == last.op = "self_heal" /\ last.b # "none"

\* C8 (self-heal never escalates): self_heal raises nothing, whatever its
\* restore_cache raised; __main__ is then at its maintain_memory call, and
\* goes on to enter the loop.
C8_SelfHealNeverEscalates ==
    /\ [](last.op = "self_heal"
            => /\ last.exc = "none"
               /\ pc \in {"maintain_memory", "check"})
    /\ (RestoreFailedInHeal ~> InLoop)

C8_Witness ==
    /\ RestoreFailedInHeal
    /\ last.b \in {"EOFError", "UnpicklingError"}
    /\ snapshot.exists
    /\ pc = "check"

\* C9 (no terminal state): inside maintain_memory a step of the loop is
\* enabled in every state short of the horizon of the model (the clock has
\* advanced MaxTicks times), and every step taken inside the loop stays
\* inside it.
C9_LoopNeverEnds ==
    /\ []((InLoop /\ ticks < MaxTicks) => ENABLED (LoopCheck \/ LoopSleep))
    /\ []((pc = "check") => ENABLED LoopCheck)
    /\ [][InLoop => InLoop']_vars

C9_Witness ==
    /\ pc = "check"
    /\ last.op = "maintain_memory"
    /\ last.a = "last_update"
    /\ now > last_update_time
    /\ ENABLED LoopCheck

\* C10 (startup ordering), as claimed: the calls made so far are always an
\* initial part of the sequence self_learn, load_plugins, update_memory,
\* dump_cache, self_heal, maintain_memory; the loop runs only after all six;
\* and no run ends before each of them has been made.
C10_StartupOrder ==
    /\ IsPrefix(trace, MainOrder)
    /\ (InLoop => trace = MainOrder)
    /\ (pc = "crashed" => trace = MainOrder)

\* C11 (the loop's timer starts at loop entry), as claimed: while the loop
\* has made no update, last_update_time is the time at which maintain_memory
\* was entered; and the first update comes more than 1 day after that entry.
C11_TimerStartsAtLoopEntry ==
    /\ ((InLoop /\ updates = <<>>) => last_update_time = entered)
    /\ (updates # <<>> => updates[1] - entered > Day)

\* C12 (sub-threshold check is a no-op): a pass of the loop that reads the
\* clock at most 1 day after last_update_time (exactly 24 hours included)
\* leaves the Memory Table, last_update_time, the cache and the snapshot as they
\* were, records no update, and goes to the sleep.
C12_SubThresholdNoOp ==
    [][(pc = "check" /\ pc' # "check" /\ Elapsed <= Day)
         => /\ memory' = memory
            /\ last_update_time' = last_update_time
            /\ cache' = cache
            /\ snapshot' = snapshot
            /\ updates' = updates
            /\ pc' = "sleep"]_vars

C12_Witness ==
    /\ last.op = "maintain_memory"
    /\ last.n = Day
    /\ last.a = ""
    /\ updates = <<>>
    /\ DOMAIN memory = {"data_point_1"}
    /\ pc = "sleep"

\* C13 (effect of one update): a pass of the loop that reads the clock more
\* than 1 day after last_update_time adds or replaces the one entry
\* "last_update" of the Memory Table, with the string of the check time;
\* every other entry, the cache and the snapshot are as they were; and
\* last_update_time becomes the check time.
C13_OneUpdate ==
    [][(pc = "check" /\ pc' # "check" /\ Elapsed > Day)
         => /\ DOMAIN memory' = DOMAIN memory \cup {"last_update"}
            /\ memory'["last_update"] = ToString(now)
            /\ \A k \in DOMAIN memory \ {"last_update"} : memory'[k] = memory[k]
            /\ last_update_time' = now
            /\ cache' = cache
            /\ snapshot' = snapshot
            /\ updates' = Append(updates, now)]_vars

C13_Witness ==
    /\ Len(updates) = 2
    /\ last.op = "maintain_memory"
    /\ last.a = "last_update"
    /\ last_update_time = updates[2]
    /\ memory["last_update"] = ToString(updates[2])
    /\ memory["data_point_1"] = "Important value"
    /\ pc = "sleep"

\* the model's horizon: the loop sleeps and the clock can advance no more
Horizon == pc = "sleep" /\ ticks = MaxTicks

\* C14 (the daily update comes at the first poll past the threshold): every
\* pass of the loop that reads the clock more than 1 day after
\* last_update_time makes the update; and, the program's steps being taken
\* when they can be, once more than 1 day has passed since last_update_time
\* inside the loop, the update follows (short of the model's horizon).
C14_UpdateAtFirstPoll ==
    /\ [][(pc = "check" /\ pc' # "check" /\ Elapsed > Day)
            => (last_update_time' = now /\ Len(updates') = Len(updates) + 1)]_vars
    /\ ((InLoop /\ Elapsed > Day) ~> (Elapsed <= Day \/ Horizon))

C14_Witness ==
    /\ prev.op = "maintain_memory"
    /\ prev.a = ""
    /\ last.op = "maintain_memory"
    /\ last.a = "last_update"
    /\ last.n > Day + PollInterval
    /\ last_update_time = now
    /\ pc = "sleep"

\* C14, as claimed: the update follows once more than 1 day has passed, and
\* the poll that makes it reads the clock no later than one poll interval
\* after the threshold was crossed.
C14_UpdateWithinOnePoll ==
    /\ []((last.op = "maintain_memory" /\ last.a = "last_update")
            => last.n <= Day + PollInterval)
    /\ ((InLoop /\ Elapsed > Day) ~> (Elapsed <= Day \/ Horizon))

\* C18 (spacing of daily updates): last_update_time never decreases, and of
\* any two consecutive updates of the loop the later one was made more than
\* 1 day after the earlier one.
C18_UpdateSpacing ==
    /\ [][last_update_time' >= last_update_time]_vars
    /\ [](\A i \in 1..(Len(updates) - 1) : updates[i + 1] - updates[i] > Day)

C18_Witness ==
    /\ Len(updates) = 2
    /\ updates[2] - updates[1] > Day
    /\ last.op = "maintain_memory"
    /\ last.a = ""
    /\ pc = "sleep"

\* the dump left the file short of a complete pickle
WriteFailed == last.op = "dump_cache" /\ snapshot # File(Pickle(cache))

\* C16 (dump failure is unguarded): a dump_cache of __main__ whose open or
\* write fails raises the error to __main__, which ends there: the process
\* has made its first four calls, has called neither self_heal nor
\* maintain_memory, and has no step left to take.
C16_DumpFailureUnguarded ==
    /\ [](last.op = "dump_cache"
            => /\ (WriteFailed => last.exc = "OSError")
               /\ (last.exc # "none"
                     => /\ pc = "crashed"
                        /\ trace = SubSeq(MainOrder, 1, 4)
                        /\ ~ENABLED MainNext))
    /\ [][pc = "crashed" => pc' = "crashed"]_vars

C16_Witness ==
    /\ WriteFailed
    /\ snapshot.exists
    /\ ~Unpickle(snapshot.bytes).ok
    /\ last.exc = "OSError"
    /\ pc = "crashed"
    /\ trace = SubSeq(MainOrder, 1, 4)

\* the bytes of the pickle of the empty mapping
EmptyPickle == <<<<"PROTO", "">>, <<"EMPTY_DICT", "">>, <<"STOP", "">>>>

\* C19 (Memory Table updates never reach the snapshot), of __main__ started
\* with no snapshot file and left alone: no step changes both the Memory Table
\* and the cache or the file; no byte of the file names a Memory Table key;
\* the file a dump_cache that returned has written is the pickle of the empty
\* mapping and stays so; and the cache is empty in every state of the loop.
C19_MemoryNeverInSnapshot ==
    /\ [][memory' # memory => (cache' = cache /\ snapshot' = snapshot)]_vars
    /\ [](\A i \in 1..Len(snapshot.bytes) : snapshot.bytes[i][2] \notin MemKeys)
    /\ []("self_heal" \in Range(trace) => snapshot = File(EmptyPickle))
    /\ [](Returned(last, "dump_cache") => snapshot = File(EmptyPickle))
    /\ [](InLoop => cache = EmptyDict)

C19_Witness ==
    /\ pc = "sleep"
    /\ updates # <<>>
    /\ DOMAIN memory = MemKeys
    /\ memory["data_point_1"] = "Important value"
    /\ snapshot = File(EmptyPickle)
    /\ cache = EmptyDict

----------------------------------------------------------------------------
(* Claims about self_learn, checked under LearnSpec *)

\* the number self_learn was given as the offset, 0 if it was given none
OffsetGiven == IF Z_arg = <<>> THEN 0 ELSE Z_arg[1]

====
